---- MODULE Spec2Model ----
(***************************************************************************)
(* SHOOT: the three tree algorithms of the repository.                     *)
(*   main (shoot/__main__.py)             scope narrowing around the query *)
(*   write_orthologs (shoot/__main__.py)  the walk from the query to root  *)
(*   split_tree (split_large_tree.py)     decomposition of a large tree    *)
(* and the creation of split_tree's output directories by concurrent runs. *)
(*                                                                         *)
(* An ete3 tree is a record of functions over the node ids 1..N:           *)
(*   up[x]        the parent of x, None (0) at the root or once detached   *)
(*   children[x]  the ordered list of x's children                         *)
(*   name[x]      a gene name (a tuple of tokens), "" for an unnamed node  *)
(*   dist[x]      the branch length to the parent, in units of 10^-6       *)
(***************************************************************************)
EXTENDS Integers, Sequences, FiniteSets, TLC

VARIABLES
    t,                      \* the ete3 tree of the running function
    pc,                     \* the position of the running function
    exc,                    \* the exception that ended it, "None" if none
    \* locals of main
    nU, nL, query_gene, node, node_prev, n_taxa_prev, fn_tree_file,
    \* locals of write_orthologs
    gene_name, n, n_prev, species_query_branch, genes_other, species_other,
    overlap, o, m, rows,
    \* locals of split_tree
    \* (its loop variable n shares the variable n of write_orthologs; d is
    \* the distance of line 84, 0 while it still holds the directory name)
    n_taxa, q_outgroup, d_ngaps, to_visit, i_part, n_profile, sizes,
    outfile, sub_files, msa_files, super_file, ret, outgrp, d,
    \* the file system namespace and the concurrent runs creating directories
    fs, procs

vars == <<t, pc, exc, nU, nL, query_gene, node, node_prev, n_taxa_prev,
          fn_tree_file, gene_name, n, n_prev, species_query_branch,
          genes_other, species_other, overlap, o, m, rows, n_taxa,
          q_outgroup, d_ngaps, to_visit, i_part, n_profile, sizes, outfile,
          sub_files, msa_files, super_file, ret, outgrp, d, fs, procs>>

mainVars == <<nU, nL, query_gene, node, node_prev, n_taxa_prev, fn_tree_file>>
orthRest == <<gene_name, n_prev, species_query_branch, genes_other,
              species_other, overlap, o, m, rows>>
orthVars == <<n, orthRest>>
splitVars == <<n_taxa, q_outgroup, d_ngaps, to_visit, i_part, n_profile,
               sizes, outfile, sub_files, msa_files, super_file, ret,
               outgrp, d>>
dirVars == <<fs, procs>>

(***************************************************************************)
(* Bounds of the model.                                                    *)
(***************************************************************************)
MaxNodes == 6        \* nodes of an enumerated tree
MaxClade == 9        \* species in one clade of a two-clade tree
MaxOverlap == 3      \* species shared by the two clades
MaxBound == 4        \* largest upper / lower bound and target size tried
NumProcs == 2        \* concurrent runs of split_tree

None == 0
Unbound == -2          \* a Python local that was never assigned

Min(a, b) == IF a <= b THEN a ELSE b

(***************************************************************************)
(* Trees as ete3.Tree(newick) builds them.                                 *)
(***************************************************************************)
RECURSIVE ParentSeqs(_)
ParentSeqs(k) ==
    IF k = 1 THEN {<<None>>}
    ELSE {Append(p, j) : p \in ParentSeqs(k - 1), j \in 1..(k - 1)}

ChildrenIn(p, x) ==
    SelectSeq([i \in 1..Len(p) |-> i], LAMBDA i : p[i] = x)

\* every internal node of a phylogenetic tree has at least two children
Branching(p) == \A x \in 1..Len(p) : Len(ChildrenIn(p, x)) # 1

Shapes == UNION {{p \in ParentSeqs(k) : Branching(p)} : k \in 3..MaxNodes}

NoName == <<>>

MakeTree(p, names, dists) ==
    [up       |-> [x \in 1..Len(p) |-> p[x]],
     children |-> [x \in 1..Len(p) |-> ChildrenIn(p, x)],
     name     |-> [x \in 1..Len(p) |->
                     IF ChildrenIn(p, x) = <<>> THEN names[x] ELSE NoName],
     dist     |-> [x \in 1..Len(p) |-> IF p[x] = None THEN 0 ELSE dists[x]]]

Nodes(tr) == DOMAIN tr.up
Root(tr) == CHOOSE x \in Nodes(tr) : x = 1
is_leaf(tr, x) == tr.children[x] = <<>>

RECURSIVE get_leaves(_, _), LeavesOfSeq(_, _)
get_leaves(tr, x) ==
    IF is_leaf(tr, x) THEN <<x>> ELSE LeavesOfSeq(tr, tr.children[x])
LeavesOfSeq(tr, s) ==
    IF s = <<>> THEN <<>>
    ELSE get_leaves(tr, Head(s)) \o LeavesOfSeq(tr, Tail(s))

\* len(node): ete3 counts the leaves under the node
TreeLen(tr, x) == Len(get_leaves(tr, x))

get_leaf_names(tr, x) ==
    LET ls == get_leaves(tr, x) IN [i \in 1..Len(ls) |-> tr.name[ls[i]]]

Range(s) == {s[i] : i \in 1..Len(s)}

\* node.write(): the Newick text as the tree it denotes.  A leaf is written
\* name:dist; an internal node is written (children)support:dist when it has
\* a parent and (children) when it has none.  The branch lengths of the
\* model have at most six significant digits, which %0.6g writes in full.
NoDist == -1
RECURSIVE Newick(_, _), NewickOfSeq(_, _)
Newick(tr, x) ==
    IF is_leaf(tr, x)
    THEN [name |-> tr.name[x], dist |-> tr.dist[x], kids |-> <<>>]
    ELSE [name |-> NoName,
          dist |-> IF tr.up[x] = None THEN NoDist ELSE tr.dist[x],
          kids |-> NewickOfSeq(tr, tr.children[x])]
NewickOfSeq(tr, s) ==
    IF s = <<>> THEN <<>>
    ELSE <<Newick(tr, Head(s))>> \o NewickOfSeq(tr, Tail(s))

\* the leaf names of a written tree, as ete3.Tree(nwk) reads them back
RECURSIVE NwkLeafNames(_), NwkLeafNamesOfSeq(_)
NwkLeafNames(w) ==
    IF w.kids = <<>> THEN <<w.name>> ELSE NwkLeafNamesOfSeq(w.kids)
NwkLeafNamesOfSeq(s) ==
    IF s = <<>> THEN <<>>
    ELSE NwkLeafNames(Head(s)) \o NwkLeafNamesOfSeq(Tail(s))

\* x is a, or a descendant of a
RECURSIVE IsUnder(_, _, _)
IsUnder(tr, x, a) ==
    IF x = a THEN TRUE
    ELSE IF tr.up[x] = None THEN FALSE
    ELSE IsUnder(tr, tr.up[x], a)

LeafSet(tr) == {x \in Nodes(tr) : is_leaf(tr, x)}

\* t & name: the node with that name (names are unique in a tree)
NodeNamed(tr, nm) == CHOOSE x \in Nodes(tr) : tr.name[x] = nm

(***************************************************************************)
(* Inputs of write_orthologs: every small tree with every assignment of    *)
(* species to its leaves, and the trees of two or three clades around the  *)
(* query whose sizes reach the thresholds of the emission rule.  A gene    *)
(* name genus_species_id is the tuple of its tokens.                       *)
(***************************************************************************)
SpeciesKeys == {<<1, 1>>, <<1, 2>>, <<2, 1>>}

LeavesOfShape(p) == {x \in 1..Len(p) : ChildrenIn(p, x) = <<>>}

UnitDists(p) == [x \in 1..Len(p) |-> 1]

SmallOrthTrees ==
    UNION {{MakeTree(p, [x \in LeavesOfShape(p) |-> Append(k[x], x)],
                     UnitDists(p)) :
              k \in [LeavesOfShape(p) -> SpeciesKeys]} : p \in Shapes}

RECURSIVE SumSeq(_)
SumSeq(s) == IF s = <<>> THEN 0 ELSE Head(s) + SumSeq(Tail(s))

RECURSIVE CladeOf(_, _), PosIn(_, _)
CladeOf(sz, r) ==
    IF r <= Head(sz) THEN 1 ELSE 1 + CladeOf(Tail(sz), r - Head(sz))
PosIn(sz, r) == IF r <= Head(sz) THEN r ELSE PosIn(Tail(sz), r - Head(sz))

QueryName == <<0, 0, 0>>

\* the query and clade 1 under the deepest spine node, clade j under the
\* j-th spine node above the query; clades[j] lists the species of its leaves
CombTree(clades) ==
    LET L  == Len(clades)
        sz == [j \in 1..L |-> Len(clades[j])]
        N  == L + 1 + SumSeq(sz)
        p  == [x \in 1..N |->
                 IF x <= L THEN x - 1
                 ELSE IF x = L + 1 THEN L
                 ELSE L + 1 - CladeOf(sz, x - L - 1)]
        nm == [x \in 1..N |->
                 IF x <= L THEN NoName
                 ELSE IF x = L + 1 THEN QueryName
                 ELSE Append(clades[CladeOf(sz, x - L - 1)]
                                   [PosIn(sz, x - L - 1)], x)]
    IN  MakeTree(p, nm, UnitDists(p))

Clade1(a) == [i \in 1..a |-> <<1, i>>]
Clade2(a, b, ov) ==
    [i \in 1..b |-> IF i <= ov THEN <<1, i>> ELSE <<1, a + i - ov>>]

CombOrthTrees ==
    UNION {UNION {
        {CombTree(<<Clade1(a), Clade2(a, b, ov)>>)}
        \cup {CombTree(<<Clade1(a), Clade2(a, b, ov), <<<<1, s>>>>>>) :
                 s \in {1, a + 1, a + b + 1}} :
        ov \in 0..Min(MaxOverlap, Min(a, b))} :
        a \in 1..MaxClade, b \in 1..MaxClade}

OrthTrees == SmallOrthTrees \cup CombOrthTrees

(***************************************************************************)
(* gene_to_species and add_orthologs_to_file                               *)
(***************************************************************************)
\* "_".join(name.split("_")[:2]): the first two tokens of the name
gene_to_species(name) == SubSeq(name, 1, Min(2, Len(name)))

\* the order of sorted(): species keys compared token by token
RECURSIVE KeyLess(_, _)
KeyLess(a, b) ==
    IF a = <<>> THEN b # <<>>
    ELSE IF b = <<>> THEN FALSE
    ELSE IF Head(a) # Head(b) THEN Head(a) < Head(b)
    ELSE KeyLess(Tail(a), Tail(b))

RECURSIVE Sorted(_)
Sorted(S) ==
    IF S = {} THEN <<>>
    ELSE LET lo == CHOOSE x \in S : \A y \in S \ {x} : KeyLess(x, y)
         IN  <<lo>> \o Sorted(S \ {lo})

\* the rows added to the writer: one per species of genes not in overlap,
\* in sorted order, each with the species' genes in the order of genes
OrthologRows(genes, ovl) ==
    LET species_to_genes(sp) ==
            SelectSeq(genes, LAMBDA g : gene_to_species(g) = sp)
        keys == Sorted({gene_to_species(g) : g \in Range(genes)})
        kept == SelectSeq(keys, LAMBDA sp : sp \notin ovl)
    IN  [i \in 1..Len(kept) |-> <<kept[i], species_to_genes(kept[i])>>]

add_orthologs_keeping_overlap(writer, genes, ovl) ==
    writer \o OrthologRows(genes, {})

add_orthologs_to_file(writer, genes, ovl) ==
    writer \o OrthologRows(genes, ovl)

EmitsOffByOne(oo, mm) == oo = 0 \/ (mm > 4 /\ oo = 1) \/ (mm > 9 /\ oo = 2)

\* the test of line 168
Emits(oo, mm) == oo = 0 \/ (mm >= 4 /\ oo = 1) \/ (mm >= 9 /\ oo = 2)

(***************************************************************************)
(* The variables a function does not use keep these values.                *)
(***************************************************************************)
MainIdle ==
    /\ nU = None /\ nL = None /\ query_gene = NoName /\ node = None
    /\ node_prev = Unbound /\ n_taxa_prev = Unbound /\ fn_tree_file = None
OrthIdle ==
    /\ gene_name = NoName /\ n = None /\ n_prev = None
    /\ species_query_branch = {} /\ genes_other = <<>>
    /\ species_other = {} /\ overlap = {} /\ o = 0 /\ m = 0 /\ rows = <<>>
SplitIdle ==
    /\ n_taxa = 0 /\ q_outgroup = FALSE /\ d_ngaps = <<>> /\ to_visit = <<>>
    /\ i_part = 0 /\ n_profile = 0 /\ sizes = <<>> /\ outfile = Unbound
    /\ sub_files = <<>> /\ msa_files = <<>> /\ super_file = <<>>
    /\ ret = None /\ outgrp = NoName /\ d = 0
DirIdle == fs = {} /\ procs = <<>>

(***************************************************************************)
(* main(..., nU, nL, ...), lines 80-98: the tree the grafter wrote to      *)
(* fn_tree is narrowed around query_gene.  The steps before line 80 belong *)
(* to the collaborators and are not modelled.                              *)
(***************************************************************************)
NotGiven == -1      \* an option left out of the command line (None)

GeneTrees ==
    {MakeTree(p, [x \in LeavesOfShape(p) |-> <<1, 1, x>>], UnitDists(p)) :
       p \in Shapes}

InitMain ==
    /\ t \in GeneTrees
    /\ \E q \in Nodes(t) : is_leaf(t, q) /\ query_gene = t.name[q]
    /\ nU \in {NotGiven} \cup 1..MaxBound
    /\ nL \in {NotGiven} \cup 1..MaxBound
    /\ node = None /\ node_prev = Unbound /\ n_taxa_prev = Unbound
    /\ fn_tree_file = Newick(t, Root(t))
    /\ pc = "main_80" /\ exc = "None"
    /\ OrthIdle /\ SplitIdle /\ DirIdle

\* lines 81 and 84: no upper bound, or the tree is within it
NarrowSkip ==
    /\ pc = "main_80"
    /\ IF nU = NotGiven THEN TRUE ELSE ~(TreeLen(t, Root(t)) > nU)
    /\ pc' = "main_done"
    /\ UNCHANGED <<t, exc, mainVars, orthVars, splitVars, dirVars>>

\* lines 81-85: the tree is over the bound, start at the query leaf
NarrowStart ==
    /\ pc = "main_80"
    /\ nU # NotGiven
    /\ TreeLen(t, Root(t)) > nU
    /\ node' = NodeNamed(t, query_gene)
    /\ pc' = "main_86"
    /\ UNCHANGED <<t, exc, nU, nL, query_gene, node_prev, n_taxa_prev,
                   fn_tree_file>>
    /\ UNCHANGED <<orthVars, splitVars, dirVars>>

\* lines 86-89: one iteration of the ascent; len(None) raises TypeError
NarrowAscend ==
    /\ pc = "main_86"
    /\ IF node = None THEN FALSE ELSE TreeLen(t, node) < nU
    /\ node_prev' = node
    /\ n_taxa_prev' = TreeLen(t, node)
    /\ node' = t.up[node]
    /\ UNCHANGED <<t, pc, exc, nU, nL, query_gene, fn_tree_file>>
    /\ UNCHANGED <<orthVars, splitVars, dirVars>>

\* lines 86 (loop exit) and 92-95: choose the subtree and overwrite fn_tree.
\* Reading node_prev or n_taxa_prev before the loop assigned them raises
\* UnboundLocalError.
NarrowDecide ==
    /\ pc = "main_86"
    /\ IF node = None THEN TRUE ELSE ~(TreeLen(t, node) < nU)
    /\ IF node = None
       THEN /\ exc' = "TypeError" /\ pc' = "main_error"
            /\ UNCHANGED <<node, fn_tree_file>>
       ELSE IF node_prev = Unbound
       THEN /\ exc' = "UnboundLocalError" /\ pc' = "main_error"
            /\ UNCHANGED <<node, fn_tree_file>>
       ELSE /\ node' = IF nL = NotGiven THEN node_prev
                       ELSE IF n_taxa_prev >= nL THEN node_prev ELSE node
            /\ fn_tree_file' = Newick(t, node')
            /\ pc' = "main_done"
            /\ exc' = exc
    /\ UNCHANGED <<t, nU, nL, query_gene, node_prev, n_taxa_prev>>
    /\ UNCHANGED <<orthVars, splitVars, dirVars>>

NextMain == NarrowSkip \/ NarrowStart \/ NarrowAscend \/ NarrowDecide

SpecMain == InitMain /\ [][NextMain]_vars

\* C1: for every tree, query leaf and upper bound, with or without a lower
\* bound, the narrowing step ends without error, and the subtree it writes
\* contains the query leaf and either has at most nU leaves, or has more
\* only because a lower bound is set and the largest subtree around the
\* query with fewer than nU leaves has fewer than nL leaves.
C1_NarrowingCompletes ==
    /\ pc # "main_error"
    /\ (pc = "main_done" /\ node # None) =>
          /\ query_gene \in Range(NwkLeafNames(fn_tree_file))
          /\ \/ Len(NwkLeafNames(fn_tree_file)) <= nU
             \/ /\ nL # NotGiven
                /\ n_taxa_prev < nL
                /\ node # node_prev

(***************************************************************************)
(* split_tree(fn_tree, fn_msa, n_taxa, q_outgroup)                         *)
(*                                                                         *)
(* Gene names are one-token names; the name "PART.%d-%d_genes" % (i, l) is *)
(* the tuple <<"PART.", i, l>> and "SHOOTOUTGROUP_" + g is g with the      *)
(* token "SHOOTOUTGROUP_" in front.  Branch lengths are integers in units  *)
(* of 10^-6.                                                               *)
(***************************************************************************)
GeneLetters == <<"A", "B", "C", "D", "E", "F", "G", "H", "I", "J", "K", "L">>
PartPrefix == "PART."
OutgroupPrefix == "SHOOTOUTGROUP_"
LongDist == 10 ^ 6         \* a branch of length 1
ShortDists == {0, 2}     \* a branch of length 0 and one of length 0.000002
GapCounts == 0..1
NoGaps == 1000000000     \* 9e99, the gap count given to a partition marker

\* the tree of the end-to-end scenario, ((A:1,B:1):1,(C:1,D:1):1);
ExampleShape == <<None, 1, 1, 2, 2, 3, 3>>

SplitShapes == Shapes \cup {ExampleShape}

LetterNames(p) ==
    LET ls == SelectSeq([i \in 1..Len(p) |-> i],
                        LAMBDA i : ChildrenIn(p, i) = <<>>)
    IN  [x \in LeavesOfShape(p) |->
           <<GeneLetters[CHOOSE i \in 1..Len(ls) : ls[i] = x]>>]

DistPatterns(p) ==
    {[x \in 1..Len(p) |-> LongDist]}
    \cup {[x \in 1..Len(p) |-> IF x = s THEN v ELSE LongDist] :
            s \in 2..Len(p), v \in ShortDists}

SplitTrees ==
    UNION {{MakeTree(p, LetterNames(p), ds) : ds \in DistPatterns(p)} :
             p \in SplitShapes}

startswith_PART(nm) == IF nm = NoName THEN FALSE ELSE Head(nm) = PartPrefix

PartName(i, l) == <<PartPrefix, i, l>>

\* "%0.5f" % x: x rounded to a multiple of 10^-5 (no branch of the model
\* falls half way between two multiples)
Fmt5(x) == ((x + 5) \div 10) * 10

RECURSIVE PathUp(_, _)
PathUp(tr, x) ==
    IF tr.up[x] = None THEN <<x>> ELSE <<x>> \o PathUp(tr, tr.up[x])

\* a.get_distance(b): the branch lengths along the path between a and b
get_distance(tr, a, b) ==
    LET pa  == PathUp(tr, a)
        pb  == PathUp(tr, b)
        ia  == CHOOSE i \in 1..Len(pa) :
                 /\ pa[i] \in Range(pb)
                 /\ \A j \in 1..(i - 1) : pa[j] \notin Range(pb)
        ib  == CHOOSE i \in 1..Len(pb) : pb[i] = pa[ia]
    IN  SumSeq([i \in 1..(ia - 1) |-> tr.dist[pa[i]]])
        + SumSeq([i \in 1..(ib - 1) |-> tr.dist[pb[i]]])

\* lines 78-83: the gene with the fewest gaps under the sisters of x
sister_genes(tr, x) ==
    LET sisters == SelectSeq(tr.children[tr.up[x]], LAMBDA c : c # x)
        ls      == LeavesOfSeq(tr, sisters)
    IN  [i \in 1..Len(ls) |-> tr.name[ls[i]]]

n_gaps(tr, gaps, x) ==
    LET sg == sister_genes(tr, x)
    IN  [i \in 1..Len(sg) |->
           IF startswith_PART(sg[i]) THEN NoGaps ELSE gaps[sg[i]]]

choose_outgroup(tr, gaps, x) ==
    LET ng == n_gaps(tr, gaps, x)
        lo == CHOOSE v \in Range(ng) : \A w \in Range(ng) : v <= w
        i  == CHOOSE k \in 1..Len(ng) :
                ng[k] = lo /\ \A j \in 1..(k - 1) : ng[j] # lo
    IN  sister_genes(tr, x)[i]

\* line 91: the subtree and the outgroup leaf under a new root
splice_outgroup(w, og, len) ==
    [name |-> NoName, dist |-> NoDist,
     kids |-> <<w, [name |-> <<OutgroupPrefix>> \o og,
                    dist |-> Fmt5(len), kids |-> <<>>]>>]

\* ete3's unroot() on a written tree: a root with two children loses its
\* first internal child, whose children move to the end of the root's; a
\* root with two leaves cannot be unrooted
CanUnroot(w) ==
    Len(w.kids) = 2 => (w.kids[1].kids # <<>> \/ w.kids[2].kids # <<>>)

UnrootNwk(w) ==
    IF Len(w.kids) # 2 THEN w
    ELSE IF w.kids[1].kids # <<>>
    THEN [w EXCEPT !.kids = <<w.kids[2]>> \o w.kids[1].kids]
    ELSE [w EXCEPT !.kids = <<w.kids[1]>> \o w.kids[2].kids]

\* lines 100-103: the subtree read back and written unrooted
SubUnrooted(w) == IF Len(NwkLeafNames(w)) >= 3 THEN UnrootNwk(w) ELSE w

\* ch.detach() for every ch of S
DetachAll(tr, S) ==
    [tr EXCEPT
       !.up = [x \in Nodes(tr) |-> IF x \in S THEN None ELSE tr.up[x]],
       !.children = [x \in Nodes(tr) |->
                       SelectSeq(tr.children[x], LAMBDA c : c \notin S)]]

\* lines 108-109: "for ch in n" iterates the leaves under n (ete3's
\* TreeNode.__iter__ is iter_leaves), n itself when n is a leaf
SweepDetach(tr, x) == DetachAll(tr, Range(get_leaves(tr, x)))

InitSplit ==
    /\ t \in SplitTrees
    /\ n_taxa \in 1..MaxBound
    /\ q_outgroup \in BOOLEAN
    /\ d_ngaps \in [{t.name[x] : x \in {y \in Nodes(t) : is_leaf(t, y)}}
                      -> IF q_outgroup THEN GapCounts ELSE {0}]
    /\ to_visit = <<>> /\ i_part = 0 /\ n_profile = 0 /\ sizes = <<>>
    /\ outfile = Unbound /\ sub_files = <<>> /\ msa_files = <<>>
    /\ super_file = <<>> /\ ret = None /\ outgrp = NoName /\ d = 0
    /\ n = None
    /\ pc = "split_57" /\ exc = "None"
    /\ MainIdle /\ DirIdle
    /\ gene_name = NoName /\ n_prev = None /\ species_query_branch = {}
    /\ genes_other = <<>> /\ species_other = {} /\ overlap = {}
    /\ o = 0 /\ m = 0 /\ rows = <<>>

\* lines 57-60: the tree is small enough, it is written as the only subtree
SplitSmall ==
    /\ pc = "split_57"
    /\ TreeLen(t, Root(t)) <= n_taxa
    /\ sub_files' = <<[nwk |-> Newick(t, Root(t)),
                       unrooted |-> Newick(t, Root(t))]>>
    /\ ret' = Min(5, TreeLen(t, Root(t)))
    /\ pc' = "split_done"
    /\ UNCHANGED <<t, exc, n_taxa, q_outgroup, d_ngaps, to_visit, i_part,
                   n_profile, sizes, outfile, msa_files, super_file>>
    /\ UNCHANGED <<n, outgrp, d>>
    /\ UNCHANGED <<mainVars, orthRest, dirVars>>

\* lines 57, 62-64: the preorder traversal starts at the root
SplitBegin ==
    /\ pc = "split_57"
    /\ ~(TreeLen(t, Root(t)) <= n_taxa)
    /\ sizes' = <<>>
    /\ to_visit' = <<Root(t)>>
    /\ pc' = "split_64"
    /\ UNCHANGED <<t, exc, n_taxa, q_outgroup, d_ngaps, i_part, n_profile,
                   outfile, sub_files, msa_files, super_file, ret>>
    /\ UNCHANGED <<n, outgrp, d>>
    /\ UNCHANGED <<mainVars, orthRest, dirVars>>

\* lines 64-66: a node over the target size, the traversal descends
VisitInner ==
    /\ pc = "split_64"
    /\ to_visit # <<>>
    /\ LET x == Head(to_visit)
       IN  /\ ~(TreeLen(t, x) <= n_taxa)
           /\ to_visit' = t.children[x] \o Tail(to_visit)
    /\ UNCHANGED <<t, pc, exc, n_taxa, q_outgroup, d_ngaps, i_part,
                   n_profile, sizes, outfile, sub_files, msa_files,
                   super_file, ret>>
    /\ n' = Head(to_visit)
    /\ UNCHANGED <<outgrp, d>>
    /\ UNCHANGED <<mainVars, orthRest, dirVars>>

\* lines 66-75, q_outgroup off: n.write(outfile) reads the local outfile,
\* which line 96 assigns only later: UnboundLocalError (and were it bound,
\* it would be a closed file passed as features: ValueError)
VisitBoundaryPlain ==
    /\ pc = "split_64"
    /\ to_visit # <<>>
    /\ ~q_outgroup
    /\ LET x == Head(to_visit)
           l == TreeLen(t, x)
       IN  /\ l <= n_taxa
           /\ n_profile' = n_profile + Min(5, l)
           /\ exc' = IF outfile = Unbound THEN "UnboundLocalError"
                     ELSE "ValueError"
           /\ pc' = "split_error"
    /\ UNCHANGED <<t, n_taxa, q_outgroup, d_ngaps, to_visit, i_part, sizes,
                   outfile, sub_files, msa_files, super_file, ret>>
    /\ n' = Head(to_visit)
    /\ UNCHANGED <<outgrp, d>>
    /\ UNCHANGED <<mainVars, orthRest, dirVars>>

\* lines 66-89, q_outgroup on: assert(d > n.dist) fails
OutgroupAssertFails ==
    /\ pc = "split_64"
    /\ to_visit # <<>>
    /\ q_outgroup
    /\ LET x      == Head(to_visit)
           l      == TreeLen(t, x)
           og     == choose_outgroup(t, d_ngaps, x)
           dd     == get_distance(t, x, NodeNamed(t, og))
       IN  /\ l <= n_taxa
           /\ ~(dd > t.dist[x])
           /\ n_profile' = n_profile + Min(5, l)
           /\ exc' = "AssertionError"
           /\ pc' = "split_error"
    /\ UNCHANGED <<t, n_taxa, q_outgroup, d_ngaps, to_visit, i_part, sizes,
                   outfile, sub_files, msa_files, super_file, ret>>
    /\ n' = Head(to_visit)
    /\ outgrp' = choose_outgroup(t, d_ngaps, Head(to_visit))
    /\ d' = get_distance(t, Head(to_visit), NodeNamed(t, outgrp'))
    /\ UNCHANGED <<mainVars, orthRest, dirVars>>

\* lines 66-104, q_outgroup on: the subtree with its outgroup is written,
\* the node is renamed and the traversal does not descend below it
VisitBoundaryOutgroup ==
    /\ pc = "split_64"
    /\ to_visit # <<>>
    /\ q_outgroup
    /\ LET x      == Head(to_visit)
           l      == TreeLen(t, x)
           og     == choose_outgroup(t, d_ngaps, x)
           dd     == get_distance(t, x, NodeNamed(t, og))
           nwk    == splice_outgroup(Newick(t, x), og, dd - t.dist[x])
           genes  == get_leaf_names(t, x)
       IN  /\ l <= n_taxa
           /\ dd > t.dist[x]
           /\ n_profile' = n_profile + Min(5, l)
           /\ msa_files' = Append(msa_files, genes)
           /\ outfile' = i_part
           /\ sub_files' = Append(sub_files,
                                  [nwk |-> nwk, unrooted |-> SubUnrooted(nwk)])
           /\ t' = [t EXCEPT !.name[x] = PartName(i_part, l)]
           /\ sizes' = Append(sizes, l)
           /\ i_part' = i_part + 1
           /\ to_visit' = Tail(to_visit)
    /\ UNCHANGED <<pc, exc, n_taxa, q_outgroup, d_ngaps, super_file, ret>>
    /\ n' = Head(to_visit)
    /\ outgrp' = choose_outgroup(t, d_ngaps, Head(to_visit))
    /\ d' = get_distance(t, Head(to_visit), NodeNamed(t, outgrp'))
    /\ UNCHANGED <<mainVars, orthRest, dirVars>>

\* lines 64 (exhausted) and 106: the second traversal starts at the root
SweepBegin ==
    /\ pc = "split_64"
    /\ to_visit = <<>>
    /\ to_visit' = <<Root(t)>>
    /\ pc' = "split_106"
    /\ UNCHANGED <<t, exc, n_taxa, q_outgroup, d_ngaps, i_part, n_profile,
                   sizes, outfile, sub_files, msa_files, super_file, ret>>
    /\ UNCHANGED <<n, outgrp, d>>
    /\ UNCHANGED <<mainVars, orthRest, dirVars>>

\* lines 106-109: one node of the second traversal; the stop test is
\* evaluated after the body, on the tree as the body left it
SweepVisit ==
    /\ pc = "split_106"
    /\ to_visit # <<>>
    /\ LET x  == Head(to_visit)
           t2 == IF startswith_PART(t.name[x]) THEN SweepDetach(t, x) ELSE t
       IN  /\ t' = t2
           /\ to_visit' = IF TreeLen(t2, x) <= n_taxa THEN Tail(to_visit)
                          ELSE t2.children[x] \o Tail(to_visit)
    /\ UNCHANGED <<pc, exc, n_taxa, q_outgroup, d_ngaps, i_part, n_profile,
                   sizes, outfile, sub_files, msa_files, super_file, ret>>
    /\ n' = Head(to_visit)
    /\ UNCHANGED <<outgrp, d>>
    /\ UNCHANGED <<mainVars, orthRest, dirVars>>

\* lines 111-115: the supertree is written, then unrooted and written again
SplitFinish ==
    /\ pc = "split_106"
    /\ to_visit = <<>>
    /\ LET w == Newick(t, Root(t))
       IN  IF CanUnroot(w)
           THEN /\ super_file' = <<w, UnrootNwk(w)>>
                /\ ret' = n_profile
                /\ pc' = "split_done"
                /\ exc' = exc
           ELSE /\ super_file' = <<w>>
                /\ ret' = ret
                /\ pc' = "split_error"
                /\ exc' = "TreeError"
    /\ UNCHANGED <<t, n_taxa, q_outgroup, d_ngaps, to_visit, i_part,
                   n_profile, sizes, outfile, sub_files, msa_files>>
    /\ UNCHANGED <<n, outgrp, d>>
    /\ UNCHANGED <<mainVars, orthRest, dirVars>>

NextSplit ==
    \/ SplitSmall \/ SplitBegin \/ VisitInner \/ VisitBoundaryPlain
    \/ OutgroupAssertFails \/ VisitBoundaryOutgroup \/ SweepBegin
    \/ SweepVisit \/ SplitFinish

SpecSplit == InitSplit /\ [][NextSplit]_vars

(***************************************************************************)
(* Claims about split_tree                                                 *)
(***************************************************************************)
IsOutgroupLeaf(nm) == IF nm = NoName THEN FALSE ELSE Head(nm) = OutgroupPrefix

\* the leaves of the i-th written subtree, the spliced outgroup leaf left out
OwnLeaves(i) ==
    SelectSeq(NwkLeafNames(sub_files[i].nwk), LAMBDA nm : ~IsOutgroupLeaf(nm))

\* the genes named by the outgroup leaves of the i-th written subtree
OutgroupGenes(i) ==
    {Tail(nm) : nm \in {k \in Range(NwkLeafNames(sub_files[i].nwk)) :
                          IsOutgroupLeaf(k)}}

\* the leaf names of the input tree (the alignment names exactly them)
InputGenes == DOMAIN d_ngaps

\* the run is at line 64 and the boundary node n has just been written
JustCut ==
    /\ pc = "split_64" /\ q_outgroup /\ n # None
    /\ startswith_PART(t.name[n])

\* C2: in either outgroup mode, when the decomposition of a tree has ended
\* (other than by the outgroup assertion), the written subtrees have
\* pairwise disjoint leaf sets whose union is the leaf set of the tree, each
\* leaf once, and each has at most n_taxa leaves, the SHOOTOUTGROUP_ leaf
\* not counted.
C2_LeafCoverage ==
    (pc \in {"split_done", "split_error"} /\ exc # "AssertionError") =>
        /\ \A i \in 1..Len(sub_files) :
              /\ Len(OwnLeaves(i)) <= n_taxa
              /\ Cardinality(Range(OwnLeaves(i))) = Len(OwnLeaves(i))
        /\ \A i, j \in 1..Len(sub_files) :
              i # j => Range(OwnLeaves(i)) \cap Range(OwnLeaves(j)) = {}
        /\ UNION {Range(OwnLeaves(i)) : i \in 1..Len(sub_files)} = InputGenes

\* C3: once the supertree is written, every node renamed to a partition
\* marker is still attached to it and has no children, and the leaves of
\* the written supertree are exactly the markers PART.<i>-<leafcount>_genes
\* with i = 0, 1, 2, ... in traversal order and <leafcount> the number of
\* leaves of the i-th subtree cut out.
C3_SupertreeLeaves ==
    (q_outgroup /\ Len(super_file) >= 1) =>
        /\ \A x \in Nodes(t) :
              startswith_PART(t.name[x]) =>
                 IsUnder(t, x, Root(t)) /\ is_leaf(t, x)
        /\ NwkLeafNames(super_file[1]) =
              [i \in 1..Len(sizes) |-> PartName(i - 1, sizes[i])]
        /\ \A i \in 1..Len(sizes) : sizes[i] = Len(OwnLeaves(i))

\* C5: with outgroup preservation on, the outgroup chosen for a boundary
\* node n is a leaf gene under a sister of n, is not a partition marker, and
\* has the fewest gaps among the candidates that are not partition markers,
\* the first such candidate on a tie.
C5_OutgroupChoice ==
    JustCut =>
        LET real == SelectSeq(sister_genes(t, n),
                              LAMBDA g : ~startswith_PART(g))
        IN  /\ ~startswith_PART(outgrp)
            /\ \E x \in Nodes(t) :
                  /\ is_leaf(t, x) /\ t.name[x] = outgrp
                  /\ IsUnder(t, x, t.up[n]) /\ ~IsUnder(t, x, n)
            /\ \E i \in 1..Len(real) :
                  /\ real[i] = outgrp
                  /\ \A j \in 1..Len(real) : d_ngaps[outgrp] <= d_ngaps[real[j]]
                  /\ \A j \in 1..(i - 1) : d_ngaps[real[j]] > d_ngaps[outgrp]

\* C6: with outgroup preservation on, the branch length of the spliced
\* SHOOTOUTGROUP_ leaf of every written subtree is d - n.dist and is
\* strictly positive; and when d <= n.dist the run ends at the assertion
\* with no subtree file written for n, n not renamed and no supertree.
C6_OutgroupDistance ==
    /\ JustCut =>
          LET og == sub_files[Len(sub_files)].nwk.kids[2]
          IN  /\ d > t.dist[n]
              /\ og.dist = d - t.dist[n]
              /\ og.dist > 0
    /\ exc = "AssertionError" =>
          /\ d <= t.dist[n]
          /\ ~startswith_PART(t.name[n])
          /\ Len(sub_files) = i_part
          /\ super_file = <<>>

RECURSIVE SumMin5(_)
SumMin5(s) == IF s = <<>> THEN 0 ELSE Min(5, Head(s)) + SumMin5(Tail(s))

\* C7: with outgroup preservation off, split_tree runs to completion,
\* writing for each boundary node its subtree as it is and an alignment of
\* exactly its leaf sequences; for ((A:1,B:1):1,(C:1,D:1):1); and target 2
\* the subtrees are (A,B) and (C,D), the supertree is
\* (PART.0-2_genes,PART.1-2_genes); and the profile count returned is 4.
C7_PlainDecomposition ==
    ~q_outgroup =>
        /\ pc # "split_error"
        /\ (pc = "split_done" /\ super_file # <<>>) =>
              /\ Len(msa_files) = Len(sub_files)
              /\ \A i \in 1..Len(sub_files) :
                    msa_files[i] = NwkLeafNames(sub_files[i].nwk)
              /\ ret = SumMin5(sizes)
        /\ (pc = "split_done" /\ t.up = [x \in 1..7 |-> ExampleShape[x]]
              /\ n_taxa = 2) =>
              /\ Len(sub_files) = 2
              /\ NwkLeafNames(sub_files[1].nwk) = <<<<"A">>, <<"B">>>>
              /\ NwkLeafNames(sub_files[2].nwk) = <<<<"C">>, <<"D">>>>
              /\ NwkLeafNames(super_file[1]) = <<PartName(0, 2), PartName(1, 2)>>
              /\ ret = 4

\* C8: with outgroup preservation on, the sequences written to the
\* alignment of each subtree are exactly the leaf genes of its node and the
\* gene chosen as its outgroup, so that every leaf of the written subtree,
\* the SHOOTOUTGROUP_ leaf included, has a sequence in the alignment.
C8_AlignmentHasOutgroup ==
    q_outgroup =>
        \A i \in 1..Len(msa_files) :
            /\ \A g \in Range(OwnLeaves(i)) : g \in Range(msa_files[i])
            /\ \A g \in OutgroupGenes(i) : g \in Range(msa_files[i])
            /\ \A g \in Range(msa_files[i]) :
                  g \in Range(OwnLeaves(i)) \/ g \in OutgroupGenes(i)

(***************************************************************************)
(* split_tree, lines 42-51: the output directories.  Several runs of       *)
(* split_tree on trees of the same input directory share the directory     *)
(* names; each run is a process of its own and the steps of the runs       *)
(* interleave.  procs[p] is run p's position: the index i of d_to_make in  *)
(* the list of line 49 and whether it is at the test of line 50 or at the  *)
(* mkdir of line 51.                                                       *)
(***************************************************************************)
dout_main == "subtrees/"
d_out_sup == "subtrees/super/"
d_out_sub == "subtrees/sub/"
d_out_msa_sub == "subtrees/msa_sub/"
DirsToMake == <<dout_main, d_out_sup, d_out_sub, d_out_msa_sub>>

InitDirs ==
    /\ fs \in {S \in SUBSET Range(DirsToMake) :
                  S # {} => dout_main \in S}
    /\ procs = [p \in 1..NumProcs |-> [i |-> 1, at |-> "exists", exc |-> "None"]]
    /\ t = <<>> /\ pc = "dirs" /\ exc = "None"
    /\ MainIdle /\ OrthIdle /\ SplitIdle

\* the position after directory i is dealt with
NextDir(pr) ==
    IF pr.i = Len(DirsToMake) THEN [pr EXCEPT !.at = "made"]
    ELSE [pr EXCEPT !.i = pr.i + 1, !.at = "exists"]

\* line 50: if not os.path.exists(d_to_make)
DirExists(p) ==
    /\ procs[p].at = "exists"
    /\ procs' = [procs EXCEPT ![p] =
                   IF DirsToMake[procs[p].i] \in fs THEN NextDir(procs[p])
                   ELSE [procs[p] EXCEPT !.at = "mkdir"]]
    /\ UNCHANGED <<fs, t, pc, exc, mainVars, orthVars, splitVars>>

\* line 51: os.mkdir(d_to_make) raises FileExistsError when the directory
\* is there, FileNotFoundError when its parent is not
DirMkdir(p) ==
    /\ procs[p].at = "mkdir"
    /\ LET dir == DirsToMake[procs[p].i]
       IN  IF dir \in fs
           THEN /\ procs' = [procs EXCEPT ![p] =
                     [procs[p] EXCEPT !.at = "error", !.exc = "FileExistsError"]]
                /\ fs' = fs
           ELSE IF dir # dout_main /\ dout_main \notin fs
           THEN /\ procs' = [procs EXCEPT ![p] =
                     [procs[p] EXCEPT !.at = "error", !.exc = "FileNotFoundError"]]
                /\ fs' = fs
           ELSE /\ fs' = fs \cup {dir}
                /\ procs' = [procs EXCEPT ![p] = NextDir(procs[p])]
    /\ UNCHANGED <<t, pc, exc, mainVars, orthVars, splitVars>>

NextDirs == \E p \in 1..NumProcs : DirExists(p) \/ DirMkdir(p)

SpecDirs == InitDirs /\ [][NextDirs]_vars

\* C9: when several decompositions of trees of the same input directory
\* run concurrently, none fails because another created a directory
\* between its test and its mkdir, and each that is past line 51 has
\* subtrees/, super/, sub/ and msa_sub/ in place.
C9_DirectoriesSafe ==
    \A p \in DOMAIN procs :
        /\ procs[p].at # "error"
        /\ procs[p].at = "made" => Range(DirsToMake) \subseteq fs

(***************************************************************************)
(* write_orthologs(fn_tree, fn_ologs, gene_name)                           *)
(***************************************************************************)
Header == <<"Species", "Orthologs">>

InitOrth ==
    /\ t \in OrthTrees
    /\ \E q \in Nodes(t) : is_leaf(t, q) /\ gene_name = t.name[q]
    /\ pc = "orth_start" /\ exc = "None"
    /\ n = None /\ n_prev = None /\ species_query_branch = {}
    /\ genes_other = <<>> /\ species_other = {} /\ overlap = {}
    /\ o = 0 /\ m = 0 /\ rows = <<>>
    /\ MainIdle /\ SplitIdle /\ DirIdle

\* lines 153-159: open the report, write the header, find the query leaf
OrthStart ==
    /\ pc = "orth_start"
    /\ rows' = <<Header>>
    /\ n' = NodeNamed(t, gene_name)
    /\ n_prev' = NodeNamed(t, gene_name)
    /\ species_query_branch' = {}
    /\ pc' = "orth_loop"
    /\ UNCHANGED <<t, exc, gene_name, genes_other, species_other, overlap,
                   o, m>>
    /\ UNCHANGED <<mainVars, splitVars, dirVars>>

\* lines 160-171: one iteration of the walk to the root
OrthLevel ==
    /\ pc = "orth_loop"
    /\ t.up[n] # None
    /\ LET up      == t.up[n]
           n_other == SelectSeq(t.children[up], LAMBDA c : c # n_prev)
           gs      == LET ls == LeavesOfSeq(t, n_other)
                      IN  [i \in 1..Len(ls) |-> t.name[ls[i]]]
           so      == {gene_to_species(g) : g \in Range(gs)}
           ovl     == species_query_branch \cap so
           oo      == Cardinality(ovl)
           mm      == Min(Cardinality(so), Cardinality(species_query_branch))
       IN  /\ n' = up
           /\ genes_other' = gs
           /\ species_other' = so
           /\ overlap' = ovl
           /\ o' = oo
           /\ m' = mm
           /\ rows' = IF Emits(oo, mm)
                      THEN add_orthologs_to_file(rows, gs, ovl)
                      ELSE rows
           /\ n_prev' = up
           /\ species_query_branch' = species_query_branch \cup so
    /\ UNCHANGED <<t, pc, exc, gene_name>>
    /\ UNCHANGED <<mainVars, splitVars, dirVars>>

\* line 160, n.up is None: the walk is over and the report is closed
OrthReturn ==
    /\ pc = "orth_loop"
    /\ t.up[n] = None
    /\ pc' = "orth_done"
    /\ UNCHANGED <<t, exc, orthVars, mainVars, splitVars, dirVars>>

NextOrth == OrthStart \/ OrthLevel \/ OrthReturn

SpecOrth == InitOrth /\ [][NextOrth]_vars

(***************************************************************************)
(* Claims about write_orthologs                                            *)
(***************************************************************************)
\* the leaves under the children of a other than the branch through b
OtherLeaves(tr, a, b) ==
    {x \in LeafSet(tr) : IsUnder(tr, x, a) /\ ~IsUnder(tr, x, b)}

SpeciesOf(tr, x) == <<tr.name[x][1], tr.name[x][2]>>

NewRows == SubSeq(rows', Len(rows) + 1, Len(rows'))

\* C4: at each ancestor of the walk, with species_other the species of the
\* leaves under the non-ascended children, o = |species_seen \cap
\* species_other| and m = min(|species_other|, |species_seen|), the clade is
\* emitted iff o = 0, or m >= 4 and o = 1, or m >= 9 and o = 2; when emitted
\* one row is written for each species of the clade outside the overlap,
\* holding that species' genes of the clade; and species_other is merged
\* into species_seen whether or not the clade was emitted.
C4_EmissionRule ==
    [][(pc = "orth_loop" /\ n' # n) =>
        LET ls    == OtherLeaves(t, n', n)
            so    == {SpeciesOf(t, x) : x \in ls}
            ovl   == species_query_branch \cap so
            oo    == Cardinality(ovl)
            mm    == IF Cardinality(so) < Cardinality(species_query_branch)
                     THEN Cardinality(so)
                     ELSE Cardinality(species_query_branch)
            emit  == oo = 0 \/ (mm >= 4 /\ oo = 1) \/ (mm >= 9 /\ oo = 2)
        IN  /\ SubSeq(rows', 1, Len(rows)) = rows
            /\ emit <=> NewRows # <<>>
            /\ emit =>
                 /\ {r[1] : r \in Range(NewRows)} = so \ ovl
                 /\ Len(NewRows) = Cardinality(so \ ovl)
                 /\ \A r \in Range(NewRows) :
                        /\ Range(r[2]) =
                             {t.name[x] : x \in {y \in ls : SpeciesOf(t, y) = r[1]}}
                        /\ Len(r[2]) = Cardinality(Range(r[2]))
            /\ species_query_branch' = species_query_branch \cup so
    ]_vars

\* C4 witness: a clade sharing two species with at least nine species on
\* either side has just been emitted.
C4_Witness ==
    /\ pc = "orth_loop" /\ o = 2 /\ m >= 9
    /\ Len(rows) > 1
    /\ rows[Len(rows)][1] \in species_other \ overlap
    /\ Cardinality(species_other \ overlap) >= 7

DataRows == IF rows = <<>> THEN <<>> ELSE Tail(rows)

C10_State ==
    LET rs == DataRows
        q  == NodeNamed(t, gene_name)
    IN  /\ \A i, j \in 1..Len(rs) : i # j => rs[i][1] # rs[j][1]
        /\ \A i, j \in 1..Len(rs) :
              \A k \in 1..Len(rs[i][2]), l \in 1..Len(rs[j][2]) :
                 (i # j \/ k # l) => rs[i][2][k] # rs[j][2][l]
        /\ \A i \in 1..Len(rs) : gene_name \notin Range(rs[i][2])
        /\ (pc \in {"orth_loop", "orth_done"} /\ n # q) =>
              \A x \in OtherLeaves(t, t.up[q], q) :
                 \E i \in 1..Len(rs) : t.name[x] \in Range(rs[i][2])

C10_Step ==
    \A r \in Range(NewRows) : r[1] \notin species_query_branch

\* C10: at every point of the walk each species key is in at most one row
\* of the report and each gene in at most one row, the query gene is in no
\* row, the clade at the first ancestor (the query's sisters) has been
\* emitted in full, and no row is ever written for a species that was
\* already merged into species_seen.
C10_ReportUnique == []C10_State /\ [][C10_Step]_vars

\* C10 witness: the walk is over with at least six rows written, some
\* species merged into species_seen has no row, and the last clade shared
\* its species with the clades below it and was skipped.
C10_Witness ==
    /\ pc = "orth_done"
    /\ Len(DataRows) >= 6
    /\ \E sp \in species_query_branch :
          \A i \in 1..Len(DataRows) : DataRows[i][1] # sp
    /\ o = 1 /\ m = 1

====
